---- MODULE Spec2Model ----
(***************************************************************************)
(* A model of levanter's training core (src/src/levanter/trainer.py):      *)
(* the hook registry, Trainer.initial_state with checkpoint resume, and    *)
(* the train / training_steps / train_step loop.                           *)
(***************************************************************************)
EXTENDS Integers, Sequences, FiniteSets, TLC

\* ------------------------------------------------------------------ bounds
MaxTrainSteps == 3
MaxHooks == 2
MaxEvery == 2

\* Leaf values are small naturals; arithmetic on them wraps at ValMod.
ValMod == 4

\* The largest leaf value of the models partition_trainable_params is tried
\* on, and the longest list of axis names a TrainerConfig is given.
MaxLeafVal == 1
MaxAxes == 2

\* The largest device count and train_batch_size _validate_and_set_defaults
\* is tried on.
MaxDevices == 6
MaxBatchSize == 4

\* The largest num_train_steps an optimizer is built for.
MaxSchedSteps == 4

\* ------------------------------------------------------------- leaf data
\* A model is a pytree, here a function from leaf names to leaves.  A leaf
\* is an array with a dtype and a value; NoLeaf is the None placeholder of
\* eqx.partition / eqx.combine.
Leaves == {"w", "b", "ids"}
FloatDtypes == {"f32", "bf16"}
NoLeaf == [dtype |-> "none", v |-> 0]
Leaf(d, x) == [dtype |-> d, v |-> x]

\* jax.tree_util.tree_map over the leaf names: the tree with leaf f[l] at l.
Tree(f) == [w |-> f["w"], b |-> f["b"], ids |-> f["ids"]]

\* levanter.utils.jax_utils.is_inexact_arrayish: a floating-point array.
is_inexact_arrayish(x) == x.dtype \in FloatDtypes

\* What a dtype can represent: bf16 keeps fewer bits than f32.
Round(d, x) == IF d = "bf16" THEN x - (x % 2) ELSE x

\* jmp's cast of one leaf: floating-point arrays change dtype (and lose
\* the bits the target cannot hold), everything else passes through.
cast_leaf(d, x) ==
    IF is_inexact_arrayish(x) THEN Leaf(d, Round(d, x.v)) ELSE x

\* jmp.Policy: the three precisions.
Policies ==
    { [param |-> "f32", compute |-> "f32", output |-> "f32"],
      [param |-> "f32", compute |-> "bf16", output |-> "f32"],
      [param |-> "bf16", compute |-> "bf16", output |-> "bf16"],
      [param |-> "f32", compute |-> "f32", output |-> "bf16"] }

cast_to_param(mp, tree) == Tree([l \in Leaves |-> cast_leaf(mp.param, tree[l])])
cast_to_compute(mp, tree) == Tree([l \in Leaves |-> cast_leaf(mp.compute, tree[l])])

\* ---------------------------------------------------- trainable partition
\* is_trainable is a filter spec: the constant True, the constant False, a
\* per-leaf predicate (given by the set of leaf names it accepts), or a tree
\* with one of these at each leaf (kind "tree", the entries in mask).
TrainableSpecs ==
    { [kind |-> "true", sel |-> {}],
      [kind |-> "false", sel |-> {}],
      [kind |-> "pred", sel |-> {"w", "ids"}] }

\* The entry of the filter spec that tree_map pairs with leaf l.
leaf_spec(spec, l) == IF spec.kind = "tree" THEN spec.mask[l] ELSE spec.kind

\* Faulty variant of trainable_and_diffable: the dtype of the leaf is not looked at.
trainable_and_diffable_any(spec, l, x) ==
    CASE leaf_spec(spec, l) = "pred" -> l \in spec.sel
      [] leaf_spec(spec, l) = "true" -> TRUE
      [] OTHER -> FALSE

\* trainable_and_diffable(pred), applied to leaf l holding x.
trainable_and_diffable(spec, l, x) ==
    CASE leaf_spec(spec, l) = "pred" -> (l \in spec.sel) /\ is_inexact_arrayish(x)
      [] leaf_spec(spec, l) = "true" -> is_inexact_arrayish(x)
      [] OTHER -> FALSE

\* eqx.partition(model, combined_mask): the pair (trainable, non-trainable).
partition_trainable_params(spec, model) ==
    << Tree([l \in Leaves |->
           IF trainable_and_diffable(spec, l, model[l]) THEN model[l] ELSE NoLeaf]),
       Tree([l \in Leaves |->
           IF trainable_and_diffable(spec, l, model[l]) THEN NoLeaf ELSE model[l]]) >>

\* Faulty variant of trainable_params_only: nothing is filtered out.
trainable_params_only_all(spec, model) == model

\* Trainer.trainable_params_only(model).
trainable_params_only(spec, model) == partition_trainable_params(spec, model)[1]

\* Faulty variant of combine: the second tree is dropped.
combine_first_only(a, b) == a

\* eqx.combine(a, b): leaf by leaf, the first that is not the placeholder.
combine(a, b) == Tree([l \in Leaves |-> IF a[l] # NoLeaf THEN a[l] ELSE b[l]])

\* ------------------------------------------------------------- PRNG keys
\* A key is the path of splits that produced it from the seed's key.
\* jax.random.split(k) returns two fresh keys, distinct from each other,
\* from k, and from every key not derived from them.
SeedKey == << >>
split(k) == << Append(k, 0), Append(k, 1) >>

\* ------------------------------------------------- injected collaborators
\* The model initializer (model_init) and a concrete model a caller may
\* pass instead; both are fully materialised at f32 / i32.
InitModel == [w |-> Leaf("f32", 3), b |-> Leaf("f32", 1), ids |-> Leaf("i32", 3)]
UserModel == [w |-> Leaf("f32", 1), b |-> Leaf("f32", 3), ids |-> Leaf("i32", 1)]

\* The optimizer a Trainer is built with.  "adam" returns updates of the
\* dtype of the gradients it is given; "f32" computes its updates with a
\* float32 step size, so they come out as float32 whatever the gradients are.
Optimizers == {"adam", "f32"}

\* optimizer.init(params): one moment per leaf it is given, and a count.
optimizer_init(params) ==
    [count |-> 0,
     mu |-> Tree([l \in Leaves |->
                IF params[l] = NoLeaf THEN NoLeaf ELSE Leaf(params[l].dtype, 0)])]

\* The raw loss of a model (already at compute precision) on a batch, and
\* its gradient with respect to one leaf: deterministic functions.
raw_loss(model, batch) ==
    (model["w"].v + model["b"].v + batch) % ValMod
raw_grad(model, l, batch) == (model[l].v + batch + 1) % ValMod

\* What the optimizer's update for a gradient of dtype d comes out as.
update_dtype(opt, d) == IF opt = "f32" THEN "f32" ELSE d

\* optimizer.update(grads, opt_state, params): (updates, new opt_state).
optimizer_update(opt, grads, opt_state, params) ==
    << Tree([l \in Leaves |->
           IF grads[l] = NoLeaf THEN NoLeaf
           ELSE Leaf(update_dtype(opt, grads[l].dtype),
                     (ValMod - grads[l].v) % ValMod)]),
       [count |-> opt_state.count + 1,
        mu |-> Tree([l \in Leaves |->
                   IF grads[l] = NoLeaf THEN opt_state.mu[l] ELSE grads[l]])] >>

\* jax's type promotion for p + u: the wider of the two floating dtypes.
promote(d1, d2) == IF d1 = d2 THEN d1 ELSE "f32"

\* Faulty variant of apply_updates: a leaf without an update is changed too.
apply_updates_everywhere(model, updates) ==
    Tree([l \in Leaves |->
        Leaf(model[l].dtype, (model[l].v + 1) % ValMod)])

\* eqx.apply_updates(model, updates): p + u where there is an update, p
\* itself where there is none.
apply_updates(model, updates) ==
    Tree([l \in Leaves |->
        IF updates[l] = NoLeaf THEN model[l]
        ELSE Leaf(promote(model[l].dtype, updates[l].dtype),
                  Round(promote(model[l].dtype, updates[l].dtype),
                        (model[l].v + updates[l].v) % ValMod))])

\* ------------------------------------------------------------- train step
\* Trainer.loss_fn: cast the model to compute precision, then the raw loss.
loss_fn(mp, model, batch) ==
    Leaf(mp.compute, Round(mp.compute, raw_loss(cast_to_compute(mp, model), batch)))

\* levanter.utils.tree_utils.inference_mode(model, value): switches the
\* modules of the model between training and inference behaviour; the
\* parameter leaves are the ones it was given.
inference_mode(model, value) == Tree([l \in Leaves |-> model[l]])

\* The gradients accumulate_gradients_sharded returns for split_loss_fn:
\* one per leaf of the trainable half, of the dtype of that leaf, and the
\* placeholder elsewhere.
step_grads(cfg, model, batch) ==
    LET parts == partition_trainable_params(cfg.is_trainable, model)
        trainable_model == parts[1]
        rest_model == parts[2]
        forward == cast_to_compute(cfg.mp, combine(trainable_model, rest_model))
    IN  Tree([l \in Leaves |->
            IF trainable_model[l] = NoLeaf THEN NoLeaf
            ELSE Leaf(trainable_model[l].dtype,
                      Round(trainable_model[l].dtype, raw_grad(forward, l, batch)))])

\* Trainer._train_step_fn.train_step: <<loss, model, opt_state>>.
train_step_fn(cfg, model0, opt_state, batch, key) ==
    LET model == inference_mode(model0, FALSE)
        parts == partition_trainable_params(cfg.is_trainable, model)
        trainable_model == parts[1]
        rest_model == parts[2]
        grads == step_grads(cfg, model, batch)
        upd == optimizer_update(cfg.optimizer, grads, opt_state, trainable_model)
    IN  << loss_fn(cfg.mp, combine(trainable_model, rest_model), batch),
           apply_updates(model, upd[1]),
           upd[2] >>

\* The key train_step hands to the step's computation.
step_key(state) == split(state.training_key)[1]

\* Faulty variant of next_training_key: the key given to the computation is kept.
next_training_key_reused(state) == split(state.training_key)[1]

\* The key train_step stores in the state it returns.
next_training_key(state) == split(state.training_key)[2]

\* Faulty variant of next_step_of: the counter is not advanced.
next_step_of_stuck(state) == state.step

\* The step counter of the state train_step returns.
next_step_of(state) == state.step + 1

\* loss.item(): the Python number an array of one element holds.
item(x) == x.v

\* Faulty variant of train_step: the time the step took leaks into the loss.
train_step_timed(cfg, state, batch, duration) ==
    LET out == train_step_fn(cfg, state.model, state.opt_state, batch, step_key(state))
    IN  [state |-> [step |-> next_step_of(state),
                    model |-> out[2],
                    opt_state |-> out[3],
                    training_key |-> next_training_key(state)],
         loss |-> (item(out[1]) + duration) % ValMod,
         step_duration |-> duration]

\* Trainer.train_step(state, batch): the StepInfo, given the wall-clock
\* time the step took.
train_step(cfg, state, batch, duration) ==
    LET out == train_step_fn(cfg, state.model, state.opt_state, batch, step_key(state))
    IN  [state |-> [step |-> next_step_of(state),
                    model |-> out[2],
                    opt_state |-> out[3],
                    training_key |-> next_training_key(state)],
         loss |-> item(out[1]),
         step_duration |-> duration]

\* named_jit(..., donate_args=(True, True)): the buffers of the model and
\* the opt_state passed to a step are given to XLA and are deleted once the
\* step has run, on a backend that implements donation; the CPU backend
\* does not and leaves them readable.
Backends == {"cpu", "tpu"}
donates(cfg) == cfg.backend # "cpu"

\* StepInfo.step and StepInfo.next_step.
info_step(info) == info.state.step - 1
info_next_step(info) == info.state.step

\* ------------------------------------------------------------ checkpoints
\* The checkpoint at load_checkpoint_path, or NoCkpt when there is none.
NoCkpt == [exists |-> FALSE]

\* Checkpointer.on_step saving a StepInfo: the trainable leaves of the
\* model, (opt_state, next_key), and the completed step.
checkpoint_of(cfg, info) ==
    [exists |-> TRUE,
     model |-> trainable_params_only(cfg.is_trainable, info.state.model),
     opt_state |-> info.state.opt_state,
     training_key |-> info.state.training_key,
     step |-> info_step(info)]

\* Checkpointer.load_checkpoint(template, aux template, path): the leaves
\* the template asks for, or NoCkpt (None) when nothing is there.
checkpointer_load(disk, template) ==
    IF ~disk.exists THEN NoCkpt
    ELSE [exists |-> TRUE,
          model |-> Tree([l \in Leaves |->
                        IF template[l] = NoLeaf THEN NoLeaf ELSE disk.model[l]]),
          opt_state |-> disk.opt_state,
          training_key |-> disk.training_key,
          step |-> disk.step]

\* Faulty variant of maybe_load_checkpoint: a missing checkpoint is never an error.
maybe_load_checkpoint_lenient(cfg, disk, template) ==
    IF cfg.load_checkpoint # "False"
    THEN [raised |-> FALSE, consulted |-> TRUE,
          ckpt |-> checkpointer_load(disk, template)]
    ELSE [raised |-> FALSE, consulted |-> FALSE, ckpt |-> NoCkpt]

\* Faulty variant of maybe_load_checkpoint: the checkpointer is asked even when
\* loading is forbidden.
maybe_load_checkpoint_eager(cfg, disk, template) ==
    LET ckpt == checkpointer_load(disk, template)
    IN  IF ~ckpt.exists /\ cfg.load_checkpoint = "True"
        THEN [raised |-> TRUE, consulted |-> TRUE, ckpt |-> NoCkpt]
        ELSE [raised |-> FALSE, consulted |-> TRUE, ckpt |-> ckpt]

\* TrainerConfig.maybe_load_checkpoint.  load_checkpoint is "None" (load if
\* there is one), "True" (must load) or "False" (never load).
maybe_load_checkpoint(cfg, disk, template) ==
    IF cfg.load_checkpoint # "False"
    THEN LET ckpt == checkpointer_load(disk, template)
         IN  IF ~ckpt.exists /\ cfg.load_checkpoint = "True"
             THEN [raised |-> TRUE, consulted |-> TRUE, ckpt |-> NoCkpt]
             ELSE [raised |-> FALSE, consulted |-> TRUE, ckpt |-> ckpt]
    ELSE [raised |-> FALSE, consulted |-> FALSE, ckpt |-> NoCkpt]

\* ---------------------------------------------------------- initial_state
\* Faulty variant of init_model_and_opt_state: the optimizer state is built
\* from the whole model.
init_model_and_opt_state_whole(cfg, m) ==
    LET parts == partition_trainable_params(cfg.is_trainable, m)
        trainable == cast_to_param(cfg.mp, parts[1])
        non_trainable == cast_to_compute(cfg.mp, parts[2])
    IN  << combine(trainable, non_trainable),
           optimizer_init(combine(trainable, non_trainable)) >>

\* Trainer._init_model_and_opt_state(model_init), m being what model_init()
\* returns: <<model, opt_state>>.
init_model_and_opt_state(cfg, m) ==
    LET parts == partition_trainable_params(cfg.is_trainable, m)
        trainable == cast_to_param(cfg.mp, parts[1])
        non_trainable == cast_to_compute(cfg.mp, parts[2])
    IN  << combine(trainable, non_trainable), optimizer_init(trainable) >>

\* Trainer._init_non_trainable_params(model_init).
init_non_trainable_params(cfg, m) ==
    cast_to_compute(cfg.mp, partition_trainable_params(cfg.is_trainable, m)[2])

\* eqx.filter_eval_shape: structure and dtypes, no values.
eval_shape(tree) ==
    Tree([l \in Leaves |->
        IF tree[l] = NoLeaf THEN NoLeaf ELSE Leaf(tree[l].dtype, 0)])

\* No call of maybe_load_checkpoint has been made.
NoTemplate == [bound |-> FALSE]

\* eqx.filter_eval_shape of an optimizer state.
opt_eval_shape(opt_state) == [count |-> 0, mu |-> eval_shape(opt_state.mu)]

\* Faulty variant of supply_error: passing both arguments is let through.
supply_error_neither_only(supply) == supply = "neither"

\* The argument check of initial_state: both of model and model_init, or
\* neither, is an error.
supply_error(supply) == supply \in {"both", "neither"}

\* Faulty variant of resume_step: the completed step is taken as the next step.
resume_step_same(completed_step) == completed_step

\* The step initial_state gives a state resumed from a checkpoint.
resume_step(completed_step) == completed_step + 1

\* Faulty variant of resumed_model: the arguments of eqx.combine are swapped.
resumed_model_swapped(cfg, supply, trainable_model) ==
    IF supply = "model"
    THEN combine(UserModel, trainable_model)
    ELSE combine(init_non_trainable_params(cfg, InitModel), trainable_model)

\* The model initial_state returns when a checkpoint was loaded.
resumed_model(cfg, supply, trainable_model) ==
    IF supply = "model"
    THEN combine(trainable_model, UserModel)
    ELSE combine(trainable_model, init_non_trainable_params(cfg, InitModel))

\* Faulty variant of loaded_training_key: the key passed to initial_state is
\* kept.
loaded_training_key_passed(ckpt, training_key) == training_key

\* trainable_model, (opt_state, training_key), completed_step = ckpt: the
\* name training_key is bound again, to the checkpoint's key.
loaded_training_key(ckpt, training_key) == ckpt.training_key

\* The outcome of initial_state when no checkpoint was loaded.
fresh_state(cfg, training_key, m) ==
    LET mo == init_model_and_opt_state(cfg, m)
    IN  [step |-> 0, model |-> mo[1], opt_state |-> mo[2],
         training_key |-> training_key]

\* Trainer.initial_state(training_key, model, model_init).  supply says
\* which of model / model_init the caller passed.  The result records
\* whether it raised, the state it returned, and the calls it made.
initial_state(cfg, disk, training_key, supply) ==
    IF supply_error(supply)
    THEN [raised |-> TRUE, err |-> "ValueError", template |-> NoTemplate,
          called |-> {}]
    ELSE
      LET m == IF supply = "model" THEN UserModel ELSE InitModel
          model_shape == eval_shape(init_model_and_opt_state(cfg, m)[1])
          opt_state_shape == opt_eval_shape(init_model_and_opt_state(cfg, m)[2])
          trainable_model_shape == trainable_params_only(cfg.is_trainable, model_shape)
          handed == [model |-> trainable_model_shape,
                     opt_state |-> opt_state_shape,
                     training_key |-> training_key]
          r == maybe_load_checkpoint(cfg, disk, trainable_model_shape)
          loadc == IF r.consulted THEN {"load_checkpoint"} ELSE {}
      IN  IF r.raised
          THEN [raised |-> TRUE, err |-> "ValueError", template |-> handed,
                called |-> {"eval_shape"} \cup loadc]
          ELSE IF r.ckpt.exists
          THEN [raised |-> FALSE, template |-> handed,
                state |-> [step |-> resume_step(r.ckpt.step),
                           model |-> resumed_model(cfg, supply, r.ckpt.model),
                           opt_state |-> r.ckpt.opt_state,
                           training_key |->
                               loaded_training_key(r.ckpt, training_key)],
                called |-> {"eval_shape"} \cup loadc \cup
                           (IF supply = "model" THEN {}
                            ELSE {"init_non_trainable_params"})]
          ELSE [raised |-> FALSE, template |-> handed,
                state |-> fresh_state(cfg, training_key, m),
                called |-> {"eval_shape", "init_model_and_opt_state"} \cup loadc]

\* ------------------------------------------------------------------ hooks
\* The callbacks a program registers: a logger, and Checkpointer.on_step,
\* which decides by itself whether to write on a call.
HookFns == {"log", "ckpt"}

\* Faulty variant of add_hook: the new entry goes to the front.
add_hook_front(hs, fn, every) == << [fn |-> fn, every |-> every] >> \o hs

\* TrainerHooks.add_hook(fn, every=every): the hook list afterwards.
add_hook(hs, fn, every) == Append(hs, [fn |-> fn, every |-> every])

\* Faulty variant of hook_due: the period is tested on next_step, not on step.
hook_due_next_step(force, info, every) == force \/ info_next_step(info) % every = 0

\* The test of TrainerHooks.run_hooks for one hook.
hook_due(force, info, every) == force \/ info_step(info) % every = 0

\* Faulty variant of loop_test: one iteration too many.
loop_test_inclusive(cfg, st) == st.step <= cfg.num_train_steps

\* The loop test of training_steps.
loop_test(cfg, st) == st.step < cfg.num_train_steps

\* Faulty variant of after_train_step: the StepInfo is yielded without its hooks.
after_train_step_no_hooks(run_hooks) == "yield"

\* Where training_steps goes after train_step: to run_hooks, then to yield.
after_train_step(run_hooks) == IF run_hooks THEN "hooks" ELSE "yield"

\* Faulty variant of after_raise: training_steps goes round its loop again.
after_raise_retry == "loop"

\* Where an error raised while a step is produced takes the program: out of
\* training_steps and out of train.
after_raise == "raised"

\* ------------------------------------------------------------------ state
NoState == [bound |-> FALSE]
NoInfo == [bound |-> FALSE]

VARIABLES
    config,      \* TrainerConfig: num_train_steps, load_checkpoint, mp; and Trainer.is_trainable_param
    hooks,       \* TrainerHooks.hooks
    disk,        \* the checkpoint at load_checkpoint_path
    pc,          \* where the program is
    supply,      \* what the caller passed to initial_state
    called,      \* what the last initial_state call ran
    err,         \* the exception that ended the run, "" if none
    state,       \* training_steps' local `state`
    batch,       \* training_steps' local `example`
    info,        \* training_steps' local `info`
    train_info,  \* train's local `info`
    run_hooks,   \* the run_hooks argument of train
    hi,          \* position of run_hooks' loop over the hook list
    calls,       \* history: the callbacks called, in order
    pulled,      \* history: batches taken from the loader
    yielded,     \* history: StepInfos yielded by training_steps
    start_step,  \* history: state.step when train was called
    keys_used,   \* history: keys handed to a step's computation
    keys_stored, \* history: keys stored as some state's training_key
    saved_next,  \* history: next_step of the StepInfo last checkpointed
    loader,      \* the batches the train loader iterates over, in order
    args,        \* the arguments of the call of a helper being looked at
    result,      \* what that call has computed so far
    deleted,     \* history: steps of the TrainerStates whose buffers were donated
    template     \* history: what initial_state handed to maybe_load_checkpoint

vars == << config, hooks, disk, pc, supply, called, err, state, batch, info,
           train_info, run_hooks, hi, calls, pulled, yielded, start_step,
           keys_used, keys_stored, saved_next, loader,
           args, result, deleted, template >>

Datasets == { << 1 >>, << 0, 1 >> }
Durations == {1, 2}
Supplies == {"model", "model_init", "both", "neither"}
LoadCheckpoint == {"None", "True", "False"}

Configs ==
    [num_train_steps : {MaxTrainSteps},
     steps_per_eval : {2},
     load_checkpoint : LoadCheckpoint,
     mp : Policies,
     is_trainable : TrainableSpecs,
     optimizer : Optimizers,
     backend : {"tpu"}]

\* A process that has just built its Trainer.
Fresh ==
    /\ hooks = << >>
    /\ pc = "setup"
    /\ supply = "neither"
    /\ called = {}
    /\ err = ""
    /\ state = NoState
    /\ batch = 0
    /\ info = NoInfo
    /\ train_info = NoInfo
    /\ run_hooks = TRUE
    /\ hi = 1
    /\ calls = << >>
    /\ pulled = 0
    /\ yielded = 0
    /\ start_step = 0
    /\ keys_used = {}
    /\ keys_stored = {}
    /\ deleted = {}
    /\ template = NoTemplate

\* No helper is being called on its own.
NoArgs == [bound |-> FALSE]
NoResult == [bound |-> FALSE]

\* The batch the loader returns on its i-th next().
batch_at(ds, i) == ds[((i - 1) % Len(ds)) + 1]

\* An earlier run of the same program: the StepInfo of its n-th step (n >= 1),
\* started from a fresh initial_state with model_init.
RECURSIVE state_after(_, _, _)
state_after(cfg, ds, n) ==
    IF n = 0 THEN fresh_state(cfg, SeedKey, InitModel)
    ELSE CHOOSE st \in { train_step(cfg, prev, batch_at(ds, n), 1).state :
                           prev \in {state_after(cfg, ds, n - 1)} } : TRUE

earlier_info(cfg, ds, n) ==
    CHOOSE inf \in { train_step(cfg, prev, batch_at(ds, n), 1) :
                       prev \in {state_after(cfg, ds, n - 1)} } : TRUE

\* The program starts with nothing at the checkpoint path (prior = 0), or
\* with the checkpoint an earlier run wrote after its step number prior.
InitWith(cfgs, datasets) ==
    /\ config \in cfgs
    /\ loader \in datasets
    /\ \E prior \in 0..MaxTrainSteps :
          IF prior = 0
          THEN disk = NoCkpt /\ saved_next = 0
          ELSE \E inf \in {earlier_info(config, loader, prior)} :
                  /\ disk = checkpoint_of(config, inf)
                  /\ saved_next = info_next_step(inf)
    /\ Fresh
    /\ args = NoArgs
    /\ result = NoResult

Init == InitWith(Configs, Datasets)

\* ---------------------------------------------------------------- actions
\* trainer.add_hook(fn, every=every), directly or as a decorator applied to
\* fn, before training starts.
AddHook(fn, every) ==
    /\ pc = "setup"
    /\ Len(hooks) < MaxHooks
    /\ hooks' = add_hook(hooks, fn, every)
    /\ UNCHANGED << config, disk, pc, supply, called, err, state, batch, info,
                    train_info, run_hooks, hi, calls, pulled, yielded,
                    start_step, keys_used, keys_stored, saved_next, loader,
                    args, result, deleted, template >>

\* trainer.add_default_hooks(eval_loader): the progress bar and the wandb
\* logger every step, the evaluation (when there is an eval loader) and the
\* XLA logger every steps_per_eval steps, the checkpointer every step.
default_hooks(cfg, has_eval) ==
    LET h1 == add_hook(add_hook(<< >>, "pbar", 1), "wandb", 1)
        h2 == IF has_eval THEN add_hook(h1, "eval", cfg.steps_per_eval) ELSE h1
    IN  add_hook(add_hook(h2, "xla", cfg.steps_per_eval), "ckpt", 1)

AddDefaultHooks(has_eval) ==
    /\ pc = "setup"
    /\ hooks = << >>
    /\ hooks' = default_hooks(config, has_eval)
    /\ UNCHANGED << config, disk, pc, supply, called, err, state, batch, info,
                    train_info, run_hooks, hi, calls, pulled, yielded,
                    start_step, keys_used, keys_stored, saved_next, loader,
                    args, result, deleted, template >>

\* state = trainer.initial_state(training_key, model=..., model_init=...).
InitialState(sup) ==
    /\ pc = "setup"
    /\ LET r == initial_state(config, disk, SeedKey, sup)
       IN  /\ supply' = sup
           /\ called' = r.called
           /\ template' = r.template
           /\ IF r.raised
              THEN /\ pc' = "raised"
                   /\ err' = r.err
                   /\ UNCHANGED << state, keys_stored >>
              ELSE /\ pc' = "ready"
                   /\ state' = r.state
                   /\ keys_stored' = {r.state.training_key}
                   /\ UNCHANGED err
    /\ UNCHANGED << config, hooks, disk, batch, info, train_info, run_hooks,
                    hi, calls, pulled, yielded, start_step, keys_used,
                    saved_next, loader,
                    args, result, deleted >>

\* trainer.train(state, loader, run_hooks=rh): training_steps is entered.
Train(rh) ==
    /\ pc = "ready"
    /\ run_hooks' = rh
    /\ start_step' = state.step
    /\ pc' = "loop"
    /\ UNCHANGED << config, hooks, disk, supply, called, err, state, batch,
                    info, train_info, hi, calls, pulled, yielded, keys_used,
                    keys_stored, saved_next, loader,
                    args, result, deleted, template >>

\* while state.step < num_train_steps: example = next(iter_data)
NextBatch ==
    /\ pc = "loop"
    /\ loop_test(config, state)
    /\ batch' = batch_at(loader, pulled + 1)
    /\ pulled' = pulled + 1
    /\ pc' = "train_step"
    /\ UNCHANGED << config, hooks, disk, supply, called, err, state, info,
                    train_info, run_hooks, hi, calls, yielded, start_step,
                    keys_used, keys_stored, saved_next, loader,
                    args, result, deleted, template >>

\* next(iter_data) raises: the error leaves training_steps and train.
LoaderRaises ==
    /\ pc = "loop"
    /\ loop_test(config, state)
    /\ pc' = after_raise
    /\ err' = "LoaderError"
    /\ UNCHANGED << config, hooks, disk, supply, called, state, batch, info,
                    train_info, run_hooks, hi, calls, pulled, yielded,
                    start_step, keys_used, keys_stored, saved_next, loader,
                    args, result, deleted, template >>

\* info = self.train_step(state, example); state = info.state
TrainStep(d) ==
    /\ pc = "train_step"
    /\ info' = train_step(config, state, batch, d)
    /\ state' = info'.state
    /\ keys_used' = keys_used \cup {step_key(state)}
    /\ keys_stored' = keys_stored \cup {info'.state.training_key}
    /\ hi' = 1
    /\ deleted' = IF donates(config) THEN deleted \cup {state.step} ELSE deleted
    /\ pc' = after_train_step(run_hooks)
    /\ UNCHANGED << config, hooks, disk, supply, called, err, batch,
                    train_info, run_hooks, calls, pulled, yielded, start_step,
                    saved_next, loader,
                    args, result, template >>

\* The loss function or the optimizer raises inside train_step: nothing in
\* train_step or training_steps catches it.
StepRaises ==
    /\ pc = "train_step"
    /\ pc' = after_raise
    /\ err' = "StepError"
    /\ UNCHANGED << config, hooks, disk, supply, called, state, batch, info,
                    train_info, run_hooks, hi, calls, pulled, yielded,
                    start_step, keys_used, keys_stored, saved_next, loader,
                    args, result, deleted, template >>

\* The StepInfo run_hooks is working on: in training_steps its own info,
\* after the loop train's info.
hook_arg == IF pc = "force" THEN train_info ELSE info

\* One pass of run_hooks' loop whose test holds: hook.fn(info).  The
\* checkpointer's callback may write a checkpoint.
CallHook ==
    /\ pc \in {"hooks", "force"}
    /\ hi <= Len(hooks)
    /\ hook_due(pc = "force", hook_arg, hooks[hi].every)
    /\ calls' = Append(calls, [idx |-> hi, fn |-> hooks[hi].fn,
                               step |-> info_step(hook_arg),
                               force |-> (pc = "force")])
    /\ \/ UNCHANGED << disk, saved_next >>
       \/ /\ hooks[hi].fn = "ckpt"
          /\ disk' = checkpoint_of(config, hook_arg)
          /\ saved_next' = info_next_step(hook_arg)
    /\ hi' = hi + 1
    /\ UNCHANGED << config, hooks, pc, supply, called, err, state, batch, info,
                    train_info, run_hooks, pulled, yielded, start_step,
                    keys_used, keys_stored, loader,
                    args, result, deleted, template >>

\* One pass of run_hooks' loop whose test fails.
SkipHook ==
    /\ pc \in {"hooks", "force"}
    /\ hi <= Len(hooks)
    /\ ~hook_due(pc = "force", hook_arg, hooks[hi].every)
    /\ hi' = hi + 1
    /\ UNCHANGED << config, hooks, disk, pc, supply, called, err, state, batch,
                    info, train_info, run_hooks, calls, pulled, yielded,
                    start_step, keys_used, keys_stored, saved_next, loader,
                    args, result, deleted, template >>

\* run_hooks returns.
HooksDone ==
    /\ pc \in {"hooks", "force"}
    /\ hi > Len(hooks)
    /\ pc' = IF pc = "hooks" THEN "yield" ELSE "return"
    /\ UNCHANGED << config, hooks, disk, supply, called, err, state, batch,
                    info, train_info, run_hooks, hi, calls, pulled, yielded,
                    start_step, keys_used, keys_stored, saved_next, loader,
                    args, result, deleted, template >>

\* yield info: train's for loop binds its own info and asks for the next.
Yield ==
    /\ pc = "yield"
    /\ train_info' = info
    /\ yielded' = yielded + 1
    /\ pc' = "loop"
    /\ UNCHANGED << config, hooks, disk, supply, called, err, state, batch,
                    info, run_hooks, hi, calls, pulled, start_step,
                    keys_used, keys_stored, saved_next, loader,
                    args, result, deleted, template >>

\* The loop test of training_steps fails: the generator is exhausted and
\* train's for loop ends.
LoopExit ==
    /\ pc = "loop"
    /\ ~loop_test(config, state)
    /\ pc' = "after_loop"
    /\ UNCHANGED << config, hooks, disk, supply, called, err, state, batch,
                    info, train_info, run_hooks, hi, calls, pulled, yielded,
                    start_step, keys_used, keys_stored, saved_next, loader,
                    args, result, deleted, template >>

\* if run_hooks: self.run_hooks(info, force=True).  Reading train's info
\* when the loop never bound it raises UnboundLocalError.
ForceHooks ==
    /\ pc = "after_loop"
    /\ run_hooks
    /\ IF train_info = NoInfo
       THEN pc' = "raised" /\ err' = "UnboundLocalError" /\ UNCHANGED hi
       ELSE pc' = "force" /\ hi' = 1 /\ UNCHANGED err
    /\ UNCHANGED << config, hooks, disk, supply, called, state, batch, info,
                    train_info, run_hooks, calls, pulled, yielded, start_step,
                    keys_used, keys_stored, saved_next, loader,
                    args, result, deleted, template >>

\* run_hooks is false: train goes straight to its return.
NoForce ==
    /\ pc = "after_loop"
    /\ ~run_hooks
    /\ pc' = "return"
    /\ UNCHANGED << config, hooks, disk, supply, called, err, state, batch,
                    info, train_info, run_hooks, hi, calls, pulled, yielded,
                    start_step, keys_used, keys_stored, saved_next, loader,
                    args, result, deleted, template >>

\* return info
Return ==
    /\ pc = "return"
    /\ IF train_info = NoInfo
       THEN pc' = "raised" /\ err' = "UnboundLocalError"
       ELSE pc' = "returned" /\ UNCHANGED err
    /\ UNCHANGED << config, hooks, disk, supply, called, state, batch, info,
                    train_info, run_hooks, hi, calls, pulled, yielded,
                    start_step, keys_used, keys_stored, saved_next, loader,
                    args, result, deleted, template >>

\* What happens once the hooks are registered.
Run ==
    \/ \E sup \in Supplies : InitialState(sup)
    \/ \E rh \in BOOLEAN : Train(rh)
    \/ NextBatch
    \/ LoaderRaises
    \/ \E d \in Durations : TrainStep(d)
    \/ StepRaises
    \/ CallHook
    \/ SkipHook
    \/ HooksDone
    \/ Yield
    \/ LoopExit
    \/ ForceHooks
    \/ NoForce
    \/ Return

\* A program that registers the default hooks, under every configuration.
Next ==
    \/ \E has_eval \in BOOLEAN : AddDefaultHooks(has_eval)
    \/ Run

Spec == Init /\ [][Next]_vars

\* A program that registers hooks of its own, under one configuration.
HookConfigs ==
    { [c EXCEPT !.backend = b] :
          c \in { c \in Configs : /\ c.load_checkpoint = "None"
                                  /\ c.mp.param = "f32"
                                  /\ c.mp.compute = "bf16"
                                  /\ c.is_trainable.kind = "pred"
                                  /\ c.optimizer = "adam" },
          b \in Backends }

InitHooks == InitWith(HookConfigs, { << 0, 1 >> })

NextHooks ==
    \/ \E fn \in HookFns, every \in 1..MaxEvery : AddHook(fn, every)
    \/ Run

SpecHooks == InitHooks /\ [][NextHooks]_vars

\* A program and its checkpoint directory standing by while one helper is
\* called on its own.
program_vars == << hooks, disk, pc, supply, called, err, state, batch, info,
                   train_info, run_hooks, hi, calls, pulled, yielded,
                   start_step, keys_used, keys_stored, saved_next, loader,
                   deleted, template >>

Idle ==
    /\ loader = << 1 >>
    /\ disk = NoCkpt
    /\ saved_next = 0
    /\ Fresh

\* ---------------------------------------- partition_trainable_params alone
\* The leaves a model may hold: floating-point arrays, an integer array, or
\* a value that is no array at all.
LeafDtypes == FloatDtypes \cup {"i32", "obj"}
LeafValues == { Leaf(d, x) : d \in LeafDtypes, x \in 0..MaxLeafVal }
Models == [w : LeafValues, b : LeafValues, ids : LeafValues]

\* Every shape of filter spec: the constants, a predicate, and the trees
\* with a constant or the predicate at each leaf.
AllTrainableSpecs ==
    TrainableSpecs \cup
    { [kind |-> "tree", sel |-> {"w", "ids"}, mask |-> m] :
          m \in [Leaves -> {"true", "false", "pred"}] }

InitPartition ==
    /\ config \in [is_trainable : AllTrainableSpecs]
    /\ args \in [model : Models]
    /\ result = NoResult
    /\ Idle

\* trainable, non_trainable = trainer.partition_trainable_params(model)
PartitionTrainableParams ==
    /\ result = NoResult
    /\ result' = [parts |-> partition_trainable_params(config.is_trainable, args.model)]
    /\ UNCHANGED << config, program_vars, args >>

\* eqx.combine(trainable, non_trainable)
CombineHalves ==
    /\ result # NoResult
    /\ "combined" \notin DOMAIN result
    /\ result' = [parts |-> result.parts,
                  combined |-> combine(result.parts[1], result.parts[2])]
    /\ UNCHANGED << config, program_vars, args >>

NextPartition ==
    \/ PartitionTrainableParams
    \/ CombineHalves

SpecPartition == InitPartition /\ [][NextPartition]_vars

\* ------------------------------------------------------- the axis mappings
\* Logical axis names and the mesh axes (ResourceAxis.DATA / MODEL).
AxisNames == {"batch", "embed"}
Resources == {"data", "model"}
NoAxis == "<None>"
None == [kind |-> "none"]

\* A ResourceMapping: a dict from some logical axis names to mesh axes,
\* written as a function that gives Absent for the names the dict lacks.
Absent == "<absent>"
Mappings == [AxisNames -> Resources \cup {Absent}]
AxisLists == UNION { [1..n -> AxisNames] : n \in 0..MaxAxes }

\* mapping[axis] = resource
put(m, k, v) == [m EXCEPT ![k] = v]

\* for axis in axes: mapping[axis] = resource
RECURSIVE put_all(_, _, _)
put_all(m, axes, v) ==
    IF axes = << >> THEN m ELSE put_all(put(m, Head(axes), v), Tail(axes), v)

\* for axis, resource in other.items(): mapping[axis] = resource
put_items(m, other) ==
    [x \in AxisNames |-> IF other[x] # Absent THEN other[x] ELSE m[x]]

\* Faulty variant of compute_axis_mapping: the batch axis is entered before the
\* tensor-parallel axes.
compute_axis_mapping_batch_first(cfg) ==
    LET tp_axes == IF cfg.tensor_parallel_axes = None THEN << >>
                   ELSE cfg.tensor_parallel_axes.v
        axes1 == IF cfg.batch_axis # NoAxis
                 THEN put(cfg.axis_resources, cfg.batch_axis, "data")
                 ELSE cfg.axis_resources
    IN  put_all(axes1, tp_axes, "model")

\* TrainerConfig.compute_axis_mapping
compute_axis_mapping(cfg) ==
    LET tp_axes == IF cfg.tensor_parallel_axes = None THEN << >>
                   ELSE cfg.tensor_parallel_axes.v
        axes1 == put_all(cfg.axis_resources, tp_axes, "model")
    IN  IF cfg.batch_axis # NoAxis
        THEN put(axes1, cfg.batch_axis, "data")
        ELSE axes1

\* Faulty variant of parameter_axis_mapping: the FSDP axes are entered before
\* the parameter overrides.
parameter_axis_mapping_fsdp_first(cfg, compute) ==
    LET m1 == CASE cfg.fsdp_axis.kind = "str" -> put(compute, cfg.fsdp_axis.name, "data")
                [] cfg.fsdp_axis.kind = "list" -> put_all(compute, cfg.fsdp_axis.v, "data")
                [] OTHER -> compute
    IN  put_items(m1, cfg.parameter_axis_resources)

\* TrainerConfig.parameter_axis_mapping, compute being what
\* self.compute_axis_mapping returns; dict(...) makes the copy it writes to.
parameter_axis_mapping(cfg, compute) ==
    LET m1 == put_items(compute, cfg.parameter_axis_resources)
    IN  CASE cfg.fsdp_axis.kind = "str" -> put(m1, cfg.fsdp_axis.name, "data")
          [] cfg.fsdp_axis.kind = "list" -> put_all(m1, cfg.fsdp_axis.v, "data")
          [] OTHER -> m1

AxisConfigs ==
    [axis_resources : Mappings,
     tensor_parallel_axes : {None} \cup { [kind |-> "list", v |-> a] : a \in AxisLists },
     batch_axis : AxisNames \cup {NoAxis},
     parameter_axis_resources : Mappings,
     fsdp_axis : {None} \cup { [kind |-> "str", name |-> a] : a \in AxisNames }
                        \cup { [kind |-> "list", v |-> a] : a \in AxisLists }]

InitAxis ==
    /\ config \in AxisConfigs
    /\ args = NoArgs
    /\ result = NoResult
    /\ Idle

\* config.compute_axis_mapping is read for the first time: the cached
\* property computes its dict and keeps it.
ComputeAxisMapping ==
    /\ result = NoResult
    /\ result' = [compute |-> compute_axis_mapping(config)]
    /\ UNCHANGED << config, program_vars, args >>

\* config.parameter_axis_mapping is read for the first time; it reads
\* compute_axis_mapping, which is computed now unless it is cached already.
ParameterAxisMapping ==
    /\ "parameter" \notin DOMAIN result
    /\ LET cached == IF result = NoResult THEN compute_axis_mapping(config)
                     ELSE result.compute
       IN  result' = [compute |-> cached,
                      parameter |-> parameter_axis_mapping(config, cached)]
    /\ UNCHANGED << config, program_vars, args >>

NextAxis ==
    \/ ComputeAxisMapping
    \/ ParameterAxisMapping

SpecAxis == InitAxis /\ [][NextAxis]_vars

\* ------------------------------------------- _validate_and_set_defaults alone
\* load_checkpoint_path left at None, and the path the checkpointer expands
\* the run id to.
NoPath == "<None>"
expanded_path == "<base_path>/<run_id>"

\* How a call ended: by returning, or by raising the exception err, with
\* self as its assignments have left it.
returns(cfg) == [config |-> cfg, raised |-> FALSE, err |-> "none"]
raises(cfg, e) == [config |-> cfg, raised |-> TRUE, err |-> e]

data_axis_size(cfg, device_count) == device_count \div cfg.model_axis_size

\* if self.per_device_parallelism == -1: ... = train_batch_size // device_count
default_per_device_parallelism(cfg, device_count) ==
    IF cfg.per_device_parallelism = -1
    THEN [cfg EXCEPT !.per_device_parallelism = cfg.train_batch_size \div device_count]
    ELSE cfg

\* if self.per_device_eval_parallelism == -1: ... = self.per_device_parallelism
default_per_device_eval_parallelism(cfg) ==
    IF cfg.per_device_eval_parallelism = -1
    THEN [cfg EXCEPT !.per_device_eval_parallelism = cfg.per_device_parallelism]
    ELSE cfg

\* if self.load_checkpoint_path is None: ... = checkpointer.expanded_path(run_id)
default_load_checkpoint_path(cfg) ==
    IF cfg.load_checkpoint_path = NoPath
    THEN [cfg EXCEPT !.load_checkpoint_path = expanded_path]
    ELSE cfg

\* TrainerConfig._validate_and_set_defaults, statement by statement.  The
\* operator % of Python raises ZeroDivisionError for a divisor of 0.
validate_and_set_defaults(cfg, device_count, local_device_count) ==
    IF device_count % cfg.model_axis_size # 0
    THEN raises(cfg, "ValueError")
    ELSE IF /\ local_device_count % cfg.model_axis_size # 0
            /\ cfg.model_axis_size % local_device_count # 0
    THEN raises(cfg, "ValueError")
    ELSE LET c1 == default_per_device_parallelism(cfg, device_count)
             per_step == c1.per_device_parallelism * data_axis_size(c1, device_count)
         IN  IF per_step = 0
             THEN raises(c1, "ZeroDivisionError")
             ELSE IF c1.train_batch_size % per_step # 0
             THEN raises(c1, "ValueError")
             ELSE returns(default_load_checkpoint_path(
                              default_per_device_eval_parallelism(c1)))

\* The devices of the job: every host has the same number of local devices.
Devices ==
    { [device_count |-> n, local_device_count |-> l] :
          n \in 1..MaxDevices, l \in 1..MaxDevices }

ValidateConfigs ==
    [model_axis_size : 1..MaxDevices,
     train_batch_size : 1..MaxBatchSize,
     per_device_parallelism : {-1, 1, 2},
     per_device_eval_parallelism : {-1, 1},
     load_checkpoint_path : {NoPath, "ckpt"}]

InitValidate ==
    /\ config \in ValidateConfigs
    /\ args \in { d \in Devices : d.device_count % d.local_device_count = 0 }
    /\ result = NoResult
    /\ Idle

\* initialize calls self._validate_and_set_defaults(): self keeps what the
\* call has assigned, whether it returns or raises.  result records how the
\* call ended and, as history, self before the call.
ValidateAndSetDefaults ==
    /\ result = NoResult
    /\ LET out == validate_and_set_defaults(config, args.device_count,
                                            args.local_device_count)
       IN  /\ config' = out.config
           /\ result' = [raised |-> out.raised, err |-> out.err, before |-> config]
    /\ UNCHANGED << program_vars, args >>

NextValidate == ValidateAndSetDefaults

SpecValidate == InitValidate /\ [][NextValidate]_vars

\* --------------------------------------------------- OptimizerConfig alone
\* The float settings are exact fractions n/d with d > 0.
Rat(n, d) == [n |-> n, d |-> d]
req(a, b) == a.n * b.d = b.n * a.d
rlt(a, b) == a.n * b.d < b.n * a.d
radd(a, b) == Rat(a.n * b.d + b.n * a.d, a.d * b.d)
rmul(a, b) == Rat(a.n * b.n, a.d * b.d)
Zero == Rat(0, 1)
One == Rat(1, 1)

\* round(x) of Python for x = n/d >= 0: to the nearest integer, a half to
\* the even one.
round(x) ==
    LET q == x.n \div x.d
        r == x.n % x.d
    IN  IF 2 * r < x.d THEN q
        ELSE IF 2 * r > x.d THEN q + 1
        ELSE IF q % 2 = 0 THEN q ELSE q + 1

\* int(x) of Python for x = n/d >= 0: the fraction is dropped.
int(x) == x.n \div x.d

\* Faulty variant of warmup_steps: rounds to the nearest integer.
warmup_steps_rounded(cfg, num_train_steps) ==
    round(rmul(cfg.warmup_ratio, Rat(num_train_steps, 1)))

\* warmup_steps = int(self.warmup_ratio * num_train_steps)
warmup_steps(cfg, num_train_steps) ==
    int(rmul(cfg.warmup_ratio, Rat(num_train_steps, 1)))

\* Faulty variant of lr_decay_steps: one step short.
lr_decay_steps_short(num_train_steps, warmup) == num_train_steps - warmup - 1

\* lr_decay_steps = num_train_steps - warmup_steps
lr_decay_steps(num_train_steps, warmup) == num_train_steps - warmup

\* min_lr = self.learning_rate * self.min_lr_ratio
min_lr(cfg) == rmul(cfg.learning_rate, cfg.min_lr_ratio)

\* The schedules of optax, as the values that stand for the closures.
constant_schedule(value) == [kind |-> "constant", init |-> value]
cosine_decay_schedule(init_value, decay_steps, alpha) ==
    [kind |-> "cosine", init |-> init_value, steps |-> decay_steps, alpha |-> alpha]
linear_schedule(init_value, end_value, transition_steps) ==
    [kind |-> "linear", init |-> init_value, end |-> end_value,
     steps |-> transition_steps]
join_schedules(first, second, boundary) ==
    [kind |-> "join", first |-> first, second |-> second, boundary |-> boundary]

clip(count, steps) == IF count < 0 THEN 0 ELSE IF count > steps THEN steps ELSE count

\* 0.5 * (1 + cos(pi * count / steps)) of cosine_decay_schedule, whose values
\* between the ends are irrational, is stood for by the cubic with the same
\* ends (1 at 0, 0 at steps), the same symmetry about 1/2 and the same strict
\* fall: (1 - x)^2 (1 + 2x) for x = count / steps.
cosine_decay(count, steps) ==
    Rat((steps - count) * (steps - count) * (steps + 2 * count),
        steps * steps * steps)

\* schedule(count) for the schedules that are not joined.  A linear schedule
\* with transition_steps <= 0 is constant at init_value.
schedule_value(sched, count) ==
    IF sched.kind = "constant" THEN sched.init
    ELSE IF sched.kind = "cosine"
    THEN LET c == clip(count, sched.steps)
         IN  rmul(sched.init,
                  radd(rmul(radd(One, Rat(-sched.alpha.n, sched.alpha.d)),
                            cosine_decay(c, sched.steps)),
                       sched.alpha))
    ELSE IF sched.steps <= 0 THEN sched.init
    ELSE LET c == clip(count, sched.steps)
         IN  Rat(sched.init.n * sched.end.d * (sched.steps - c)
                   + sched.end.n * sched.init.d * c,
                 sched.init.d * sched.end.d * sched.steps)

\* schedule(step): join_schedules gives the second schedule, counted from
\* the boundary, from the boundary on.
schedule_at(sched, step) ==
    IF sched.kind = "join"
    THEN IF step >= sched.boundary
         THEN schedule_value(sched.second, step - sched.boundary)
         ELSE schedule_value(sched.first, step)
    ELSE schedule_value(sched, step)

LrSchedules == {"constant", "cosine", "linear"}

\* OptimizerConfig.lr_scheduler: the schedule it returns, or the ValueError
\* of an unknown lr_schedule or of cosine_decay_schedule refusing
\* decay_steps <= 0.
lr_scheduler(cfg, num_train_steps) ==
    LET warmup == warmup_steps(cfg, num_train_steps)
        decay == lr_decay_steps(num_train_steps, warmup)
        schedule ==
            IF cfg.lr_schedule = "constant"
            THEN constant_schedule(cfg.learning_rate)
            ELSE IF cfg.lr_schedule = "cosine"
            THEN cosine_decay_schedule(cfg.learning_rate, decay, cfg.min_lr_ratio)
            ELSE linear_schedule(cfg.learning_rate, min_lr(cfg), decay - warmup)
    IN  IF cfg.lr_schedule \notin LrSchedules
        THEN [raised |-> TRUE, err |-> "ValueError"]
        ELSE IF cfg.lr_schedule = "cosine" /\ decay <= 0
        THEN [raised |-> TRUE, err |-> "ValueError"]
        ELSE IF warmup # 0
        THEN [raised |-> FALSE,
              schedule |-> join_schedules(
                               linear_schedule(Zero, cfg.learning_rate, warmup),
                               schedule, warmup)]
        ELSE [raised |-> FALSE, schedule |-> schedule]

\* Faulty variant of components: the weight decay comes before Adam.
components_decay_first(cfg) ==
    (IF cfg.max_grad_norm # None /\ ~req(cfg.max_grad_norm, Zero)
     THEN << "clip_by_global_norm" >> ELSE << >>)
    \o (IF rlt(Zero, cfg.weight_decay)
        THEN << "add_decayed_weights" >> ELSE << >>)
    \o << "scale_by_adam" >>
    \o << "scale(-learning_rate)" >>

\* The components list of _optimizer.  max_grad_norm is tested for truth:
\* None and 0.0 both leave the clipping out.
components(cfg) ==
    (IF cfg.max_grad_norm # None /\ ~req(cfg.max_grad_norm, Zero)
     THEN << "clip_by_global_norm" >> ELSE << >>)
    \o << "scale_by_adam" >>
    \o (IF rlt(Zero, cfg.weight_decay)
        THEN << "add_decayed_weights" >> ELSE << >>)
    \o << "scale(-learning_rate)" >>

\* OptimizerConfig.build: the chain of the components, its learning_rate
\* injected from lr_scheduler(num_train_steps), whose error it passes on.
build(cfg, num_train_steps) ==
    LET lr == lr_scheduler(cfg, num_train_steps)
    IN  IF lr.raised THEN lr
        ELSE [raised |-> FALSE, schedule |-> lr.schedule,
              components |-> components(cfg)]

OptimizerConfigs ==
    [learning_rate : {Rat(1, 1), Rat(3, 5)},
     weight_decay : {Zero, Rat(1, 10)},
     max_grad_norm : {None, Zero, One},
     min_lr_ratio : {Zero, Rat(1, 2)},
     warmup_ratio : {Zero, Rat(1, 10), Rat(1, 4), Rat(1, 2), Rat(3, 4), One},
     lr_schedule : LrSchedules \cup {"exponential"}]

InitOptimizer ==
    /\ config \in OptimizerConfigs
    /\ args \in [num_train_steps : 1..MaxSchedSteps]
    /\ result = NoResult
    /\ Idle

\* config.lr_scheduler(num_train_steps) is called.
LrScheduler ==
    /\ result = NoResult
    /\ result' = lr_scheduler(config, args.num_train_steps)
    /\ UNCHANGED << config, program_vars, args >>

\* config.build(num_train_steps) is called.
Build ==
    /\ result = NoResult
    /\ result' = build(config, args.num_train_steps)
    /\ UNCHANGED << config, program_vars, args >>

NextOptimizer ==
    \/ LrScheduler
    \/ Build

SpecOptimizer == InitOptimizer /\ [][NextOptimizer]_vars

\* ------------------------------------------------------------- properties
\* train has been called and its locals are bound.
InTrain == pc \in {"loop", "train_step", "hooks", "yield", "after_loop",
                   "force", "return", "returned"}

\* training_steps has run to its end: its loop test failed.
Exhausted ==
    \/ pc \in {"after_loop", "force", "return", "returned"}
    \/ pc = "raised" /\ err = "UnboundLocalError"

\* C1: every train_step returns a StepInfo whose state.step is the input
\* state's step plus one, so the step counter of the successive states of a
\* run goes up by exactly one each time it changes.
C1_StepPlusOne ==
    [][ (pc # "setup" /\ state' # state) =>
            /\ pc = "train_step"
            /\ info'.state = state'
            /\ state'.step = state.step + 1 ]_vars

C1_Witness ==
    /\ pc = "yield"
    /\ start_step = 1
    /\ state.step = 3

\* C2: from a state with step s <= num_train_steps and with a loader that
\* always has a batch, training_steps takes one batch per StepInfo, yields
\* num_train_steps - s of them and ends with state.step = num_train_steps;
\* no batch is taken and no step runs once state.step = num_train_steps.
C2_YieldsRemainingSteps ==
    (InTrain \/ Exhausted) =>
        /\ start_step <= config.num_train_steps
        /\ pulled = yielded + (IF pc \in {"train_step", "hooks", "yield"} THEN 1 ELSE 0)
        /\ state.step = start_step + yielded + (IF pc \in {"hooks", "yield"} THEN 1 ELSE 0)
        /\ state.step <= config.num_train_steps
        /\ pc = "train_step" => state.step < config.num_train_steps
        /\ Exhausted => /\ yielded = config.num_train_steps - start_step
                        /\ pulled = yielded
                        /\ state.step = config.num_train_steps

C2_Witness ==
    /\ pc = "after_loop"
    /\ start_step = 1
    /\ yielded = 2
    /\ pulled = 2

\* train has ended without an error of the loader.
TrainEnded ==
    \/ pc = "returned"
    \/ pc = "raised" /\ err = "UnboundLocalError"

\* The positions in the history of the calls of hook number i, forced or not.
CallsOf(i, forced) ==
    { j \in DOMAIN calls : calls[j].idx = i /\ calls[j].force = forced }

\* C3: in a train with run_hooks, a hook registered with every = N has been
\* called once for each completed step k with k % N = 0 and for no other
\* step, and then exactly once more, forced, after the last step; whatever
\* the other hooks of the list are.
C3_PeriodicPlusOneForced ==
    (run_hooks /\ TrainEnded) =>
        \A i \in DOMAIN hooks :
            /\ \A k \in start_step..(config.num_train_steps - 1) :
                  Cardinality({ j \in CallsOf(i, FALSE) : calls[j].step = k })
                      = IF k % hooks[i].every = 0 THEN 1 ELSE 0
            /\ \A j \in CallsOf(i, FALSE) :
                  calls[j].step \in start_step..(config.num_train_steps - 1)
            /\ Cardinality(CallsOf(i, TRUE)) = 1
            /\ \A j \in CallsOf(i, TRUE) :
                  /\ calls[j].step = config.num_train_steps - 1
                  /\ \A j2 \in CallsOf(i, FALSE) : j2 < j

\* The calls made so far by the run_hooks call in progress, to hook number i.
CallsNow(i) ==
    { j \in CallsOf(i, pc = "force") :
          calls[j].step = hook_arg.state.step - 1 }

\* C4: one run_hooks(info, force) calls a hook if and only if force holds or
\* (info.state.step - 1) % every = 0, and calls no hook twice.
C4_CalledIffDue ==
    pc \in {"hooks", "force"} =>
        \A i \in DOMAIN hooks :
            Cardinality(CallsNow(i)) =
                IF /\ i < hi
                   /\ \/ pc = "force"
                      \/ (hook_arg.state.step - 1) % hooks[i].every = 0
                THEN 1 ELSE 0

C4_Witness ==
    /\ pc = "hooks"
    /\ hi > Len(hooks)
    /\ Len(hooks) = 2
    /\ CallsNow(1) = {}
    /\ CallsNow(2) # {}
    /\ info.state.step = 2

\* C5: the hook list changes only by one entry being added at its end, and
\* the callbacks one run_hooks call makes are made in registration order.
C5_AppendOnlyInOrder ==
    /\ [][ hooks' # hooks =>
              /\ Len(hooks') = Len(hooks) + 1
              /\ SubSeq(hooks', 1, Len(hooks)) = hooks ]_vars
    /\ [](\A j, k \in DOMAIN calls :
              /\ calls[j].fn = hooks[calls[j].idx].fn
              /\ (j < k /\ calls[j].step = calls[k].step
                        /\ calls[j].force = calls[k].force)
                    => calls[j].idx < calls[k].idx)

C5_Witness ==
    /\ Len(hooks) = 2
    /\ hooks[1] # hooks[2]
    /\ Len(calls) >= 2
    /\ calls[1].step = calls[2].step
    /\ calls[1].idx = 1
    /\ calls[2].idx = 2

\* Every hook due for the step of StepInfo inf has been called for it.
HooksRanFor(inf) ==
    \A i \in DOMAIN hooks :
        ((inf.state.step - 1) % hooks[i].every = 0) =>
            \E j \in CallsOf(i, FALSE) : calls[j].step = inf.state.step - 1

\* C6: with run_hooks, the hooks due for step n have all been called before
\* the StepInfo of step n is yielded, before the loader is asked for the
\* next batch and before the next train_step starts.
C6_HooksBeforeNextStep ==
    run_hooks =>
        /\ (pc \in {"yield", "loop", "train_step"} /\ info # NoInfo)
              => HooksRanFor(info)
        /\ train_info # NoInfo => HooksRanFor(train_info)

C6_Witness ==
    /\ run_hooks
    /\ pc = "train_step"
    /\ info # NoInfo
    /\ train_info = info
    /\ \E j \in DOMAIN calls : calls[j].step = info.state.step - 1

\* C7: over the steps of a run, each started from the state the one before
\* returned, the keys handed to the steps' computations are all different
\* and none of them is the training_key of any state (the initial one or a
\* returned one); each step adds one key of each sort.
C7_NoKeyReuse ==
    InTrain =>
        /\ keys_used \cap keys_stored = {}
        /\ Cardinality(keys_used) = state.step - start_step
        /\ Cardinality(keys_stored) = state.step - start_step + 1
        /\ state.training_key \in keys_stored
        /\ state.training_key \notin keys_used

C7_Witness ==
    /\ pc = "yield"
    /\ Cardinality(keys_used) = 2
    /\ start_step = 1

\* initial_state has returned a state, and train has not been called yet.
Returned == pc = "ready"

\* initial_state found a checkpoint to load: loading is not forbidden and
\* there is a checkpoint at the path.
Loaded == config.load_checkpoint # "False" /\ disk.exists

\* C8: initial_state returns step = N + 1 when it loads a checkpoint of
\* completed step N, which is the next_step of the StepInfo the checkpoint
\* was written from, and step = 0 when it loads none.
C8_ResumeStep ==
    Returned =>
        IF Loaded
        THEN state.step = disk.step + 1 /\ state.step = saved_next
        ELSE state.step = 0

C8_Witness ==
    /\ Returned
    /\ config.load_checkpoint = "None"
    /\ disk.exists
    /\ disk.step = 1
    /\ state.step = 2

\* What the caller's model or initializer holds at leaf l.
Supplied(l) == IF supply = "model" THEN UserModel[l] ELSE InitModel[l]

\* Leaf l is trainable: the spec selects it and it is a floating-point array.
IsTrainable(l) ==
    /\ Supplied(l).dtype \in FloatDtypes
    /\ \/ config.is_trainable.kind = "true"
       \/ config.is_trainable.kind = "pred" /\ l \in config.is_trainable.sel

\* C9 as stated: after a load every trainable leaf is the checkpoint's and
\* every other leaf is the supplied model's, or else the one model_init
\* produces.
C9_Original ==
    (Returned /\ Loaded) =>
        \A l \in Leaves :
            IF IsTrainable(l)
            THEN state.model[l] = disk.model[l]
            ELSE state.model[l] = Supplied(l)

\* C9, amended: after a load every trainable leaf is the checkpoint's; every
\* other leaf is the supplied model's leaf as it is when a model was given,
\* and otherwise the leaf model_init produces cast to compute precision (a
\* floating-point leaf takes the compute dtype, any other leaf is as
\* produced).
C9_Amended ==
    (Returned /\ Loaded) =>
        \A l \in Leaves :
            IF IsTrainable(l)
            THEN state.model[l] = disk.model[l]
            ELSE IF supply = "model"
            THEN state.model[l] = UserModel[l]
            ELSE IF InitModel[l].dtype \in FloatDtypes
            THEN /\ state.model[l].dtype = config.mp.compute
                 /\ state.model[l].v = Round(config.mp.compute, InitModel[l].v)
            ELSE state.model[l] = InitModel[l]

C9_Witness ==
    /\ Returned
    /\ Loaded
    /\ supply = "model_init"
    /\ config.mp.compute = "bf16"
    /\ ~IsTrainable("b")
    /\ IsTrainable("w")
    /\ state.model["b"] # InitModel["b"]
    /\ state.model["w"] # InitModel["w"]

\* C10: with load_checkpoint = True and no checkpoint at the path,
\* initial_state ends with the ValueError of maybe_load_checkpoint: it
\* returns no state and does not run the fresh initialization.
C10_RequiredMissingRaises ==
    (/\ pc # "setup"
     /\ supply \in {"model", "model_init"}
     /\ config.load_checkpoint = "True"
     /\ ~disk.exists) =>
        /\ pc = "raised"
        /\ err = "ValueError"
        /\ state = NoState
        /\ "load_checkpoint" \in called
        /\ "init_model_and_opt_state" \notin called

C10_Witness ==
    /\ pc = "raised"
    /\ supply = "model_init"
    /\ config.load_checkpoint = "True"
    /\ ~disk.exists
    /\ "load_checkpoint" \in called

\* initial_state was called with exactly one of model and model_init.
OneSupplied == pc # "setup" /\ supply \in {"model", "model_init"}

\* C11: with load_checkpoint = False, initial_state does not ask the
\* checkpointer, runs the fresh initialization and returns step 0 with the
\* caller's training key and a new optimizer state, whether or not there is
\* a checkpoint at the path.
C11_ForbiddenNeverLoads ==
    (OneSupplied /\ config.load_checkpoint = "False") =>
        /\ "load_checkpoint" \notin called
        /\ "init_model_and_opt_state" \in called
        /\ err # "ValueError"
        /\ Returned => /\ state.step = 0
                       /\ state.training_key = SeedKey
                       /\ state.opt_state.count = 0

C11_Witness ==
    /\ Returned
    /\ config.load_checkpoint = "False"
    /\ disk.exists
    /\ disk.step = 1
    /\ disk.training_key # SeedKey
    /\ state.step = 0

\* C12: initial_state called with both model and model_init, or with
\* neither, ends with a ValueError having computed no shape, asked for no
\* checkpoint and run no initializer; called with exactly one it goes on to
\* compute the shapes.
C12_ExactlyOneSupplied ==
    pc # "setup" =>
        IF supply \in {"both", "neither"}
        THEN /\ pc = "raised"
             /\ err = "ValueError"
             /\ called = {}
             /\ state = NoState
        ELSE "eval_shape" \in called

C12_Witness ==
    /\ pc = "raised"
    /\ supply = "both"
    /\ called = {}
    /\ disk.exists

\* C13: a train step leaves every non-trainable leaf of the model as it was
\* in the state it was given.
C13_OnlyTrainableChange ==
    [][ pc = "train_step" =>
            \A l \in Leaves :
                ~IsTrainable(l) => state'.model[l] = state.model[l] ]_vars

C13_Witness ==
    /\ pc = "yield"
    /\ supply = "model_init"
    /\ ~Loaded
    /\ state.step = 1
    /\ IsTrainable("w")
    /\ ~IsTrainable("b")
    /\ state.model["w"] # fresh_state(config, SeedKey, InitModel).model["w"]
    /\ state.model["b"] = fresh_state(config, SeedKey, InitModel).model["b"]

\* C16: the optimizer state of every TrainerState has an entry for a leaf
\* exactly when the leaf is trainable, and so have the gradients and the
\* updates computed in a train step.
C16_OptimizerSeesTrainableOnly ==
    state # NoState =>
        /\ \A l \in Leaves : (state.opt_state.mu[l] # NoLeaf) <=> IsTrainable(l)
        /\ pc = "train_step" =>
              \A l \in Leaves :
                  /\ (step_grads(config, state.model, batch)[l] # NoLeaf)
                        <=> IsTrainable(l)
                  /\ (optimizer_update(config.optimizer,
                                       step_grads(config, state.model, batch),
                                       state.opt_state,
                                       trainable_params_only(config.is_trainable,
                                                             state.model))[1][l] # NoLeaf)
                        <=> IsTrainable(l)

C16_Witness ==
    /\ pc = "train_step"
    /\ state.opt_state.count = 1
    /\ IsTrainable("w")
    /\ ~IsTrainable("b")
    /\ state.opt_state.mu["w"] # NoLeaf
    /\ state.opt_state.mu["b"] = NoLeaf
    /\ state.model["b"].dtype \in FloatDtypes

\* C19: in every state initial_state returns, every non-trainable
\* floating-point leaf of the model is at compute precision.
C19_NonTrainableAtCompute ==
    Returned =>
        \A l \in Leaves :
            (~IsTrainable(l) /\ state.model[l].dtype \in FloatDtypes)
                => state.model[l].dtype = config.mp.compute

\* C20: in every TrainerState, the one initial_state returns and the one
\* each train_step returns, every trainable leaf is at param precision.
C20_TrainableAtParam ==
    state # NoState =>
        \A l \in Leaves : IsTrainable(l) => state.model[l].dtype = config.mp.param

\* The filter spec selects leaf l: the constant True, or a predicate that
\* accepts the leaf, stands at it.
Selects(spec, l) ==
    LET k == IF spec.kind = "tree" THEN spec.mask[l] ELSE spec.kind
    IN  k = "true" \/ (k = "pred" /\ l \in spec.sel)

\* C14: each leaf of the model is in exactly one of the two halves
\* partition_trainable_params returns, with the placeholder in the other,
\* and combining the halves gives the model back, for every model and every
\* filter spec.
C14_PartitionCombineIdentity ==
    result # NoResult =>
        /\ \A l \in Leaves :
              \/ /\ result.parts[1][l] = args.model[l]
                 /\ result.parts[2][l] = NoLeaf
              \/ /\ result.parts[1][l] = NoLeaf
                 /\ result.parts[2][l] = args.model[l]
        /\ "combined" \in DOMAIN result => result.combined = args.model

C14_Witness ==
    /\ result # NoResult
    /\ "combined" \in DOMAIN result
    /\ config.is_trainable.kind = "tree"
    /\ result.parts[1]["w"] # NoLeaf
    /\ result.parts[2]["b"] # NoLeaf
    /\ result.parts[2]["b"].dtype = "f32"
    /\ result.combined["w"].v # result.combined["b"].v

\* C15: a leaf is in the trainable half exactly when the filter spec selects
\* it and it is a floating-point array; every other leaf is in the
\* non-trainable half.
C15_TrainableIffSelectedFloat ==
    result # NoResult =>
        \A l \in Leaves :
            IF Selects(config.is_trainable, l) /\ args.model[l].dtype \in FloatDtypes
            THEN result.parts[1][l] = args.model[l]
            ELSE result.parts[1][l] = NoLeaf /\ result.parts[2][l] = args.model[l]

C15_Witness ==
    /\ result # NoResult
    /\ config.is_trainable.kind = "pred"
    /\ args.model["w"].dtype = "i32"
    /\ args.model["ids"].dtype = "bf16"
    /\ args.model["b"].dtype = "f32"
    /\ result.parts[2]["w"] = args.model["w"]
    /\ result.parts[1]["ids"] = args.model["ids"]
    /\ result.parts[2]["b"] = args.model["b"]

\* The names in the tensor_parallel_axes and fsdp_axis settings.
TpNames ==
    IF config.tensor_parallel_axes = None THEN {}
    ELSE { config.tensor_parallel_axes.v[i] : i \in DOMAIN config.tensor_parallel_axes.v }

FsdpNames ==
    CASE config.fsdp_axis.kind = "str" -> { config.fsdp_axis.name }
      [] config.fsdp_axis.kind = "list" ->
             { config.fsdp_axis.v[i] : i \in DOMAIN config.fsdp_axis.v }
      [] OTHER -> {}

\* Mapping m has an entry for name n, and the entry is r.
MapsTo(m, n, r) == r # Absent /\ m[n] = r

\* C17: in compute_axis_mapping the batch axis maps to data; any other
\* tensor-parallel name maps to model; any other name has its axis_resources
\* entry, or none.
C17_ComputeMappingPrecedence ==
    result # NoResult =>
        \A n \in AxisNames :
            IF n = config.batch_axis THEN MapsTo(result.compute, n, "data")
            ELSE IF n \in TpNames THEN MapsTo(result.compute, n, "model")
            ELSE IF config.axis_resources[n] # Absent
            THEN MapsTo(result.compute, n, config.axis_resources[n])
            ELSE result.compute[n] = Absent

C17_Witness ==
    /\ result # NoResult
    /\ config.batch_axis = "batch"
    /\ "batch" \in TpNames
    /\ "embed" \in TpNames
    /\ MapsTo(config.axis_resources, "batch", "model")
    /\ MapsTo(config.axis_resources, "embed", "data")
    /\ MapsTo(result.compute, "batch", "data")
    /\ MapsTo(result.compute, "embed", "model")

\* C18: in parameter_axis_mapping an FSDP name maps to data; any other name
\* with a parameter override maps to the override; any other name is as in
\* compute_axis_mapping; and compute_axis_mapping is what it was.
C18_ParameterMappingPrecedence ==
    (result # NoResult /\ "parameter" \in DOMAIN result) =>
        /\ \A n \in AxisNames :
              IF n \in FsdpNames THEN MapsTo(result.parameter, n, "data")
              ELSE IF config.parameter_axis_resources[n] # Absent
              THEN MapsTo(result.parameter, n, config.parameter_axis_resources[n])
              ELSE result.parameter[n] = result.compute[n]
        /\ result.compute = compute_axis_mapping(config)

C18_Witness ==
    /\ result # NoResult
    /\ "parameter" \in DOMAIN result
    /\ config.fsdp_axis.kind = "list"
    /\ FsdpNames = {"embed"}
    /\ "embed" \in TpNames
    /\ config.batch_axis = "batch"
    /\ MapsTo(config.parameter_axis_resources, "embed", "model")
    /\ MapsTo(config.parameter_axis_resources, "batch", "model")
    /\ MapsTo(result.compute, "embed", "model")
    /\ MapsTo(result.parameter, "embed", "data")
    /\ MapsTo(result.parameter, "batch", "model")

\* C21: the loss in every StepInfo is a value of the policy's output
\* precision: casting it to that precision would not change it.
C21_LossAtOutput ==
    info # NoInfo => info.loss = Round(config.mp.output, info.loss)

\* C26: the TrainerState of the StepInfo that train (or any consumer of
\* training_steps) holds stays readable, whatever steps have run since.
C26_InputStateStaysReadable ==
    train_info # NoInfo => train_info.state.step \notin deleted

\* This run started from a fresh initialization by model_init, like the
\* earlier run of the same program, and has produced a StepInfo.
FreshRun ==
    /\ supply = "model_init"
    /\ "init_model_and_opt_state" \in called
    /\ info # NoInfo

C28_ErrorsPropagate ==
    /\ [][pc # "raised"]_vars
    /\ [](err \in {"LoaderError", "StepError"} =>
              /\ pc = "raised"
              /\ yielded = state.step - start_step
              /\ \A j \in DOMAIN calls : calls[j].step < state.step
              /\ pulled = yielded + (IF err = "StepError" THEN 1 ELSE 0))

C28_Witness ==
    /\ pc = "raised"
    /\ err = "StepError"
    /\ yielded = 1
    /\ pulled = 2
    /\ Len(calls) > 0

\* a is not a multiple of b.
NotDivisible(a, b) == \A k \in 0..a : a # k * b

\* per_device_parallelism as the divisibility check reads it: -1 replaced by
\* train_batch_size // device_count.
EffectiveParallelism ==
    IF result.before.per_device_parallelism = -1
    THEN result.before.train_batch_size \div args.device_count
    ELSE result.before.per_device_parallelism

\* C24: _validate_and_set_defaults raises ValueError when the device count
\* is not divisible by model_axis_size, and when train_batch_size is not
\* divisible by per_device_parallelism * data_axis_size.
C24_IndivisibleRaisesValueError ==
    result # NoResult =>
        LET indivisible ==
                \/ NotDivisible(args.device_count, result.before.model_axis_size)
                \/ NotDivisible(result.before.train_batch_size,
                                EffectiveParallelism
                                  * data_axis_size(result.before, args.device_count))
        IN  indivisible => result.raised /\ result.err = "ValueError"

\* C25: when _validate_and_set_defaults raises, per_device_parallelism,
\* per_device_eval_parallelism and load_checkpoint_path are as they were
\* before the call.
C25_RaiseLeavesConfigAlone ==
    (result # NoResult /\ result.raised) =>
        /\ config.per_device_parallelism = result.before.per_device_parallelism
        /\ config.per_device_eval_parallelism = result.before.per_device_eval_parallelism
        /\ config.load_checkpoint_path = result.before.load_checkpoint_path

\* lr_scheduler or build has returned a schedule.
HasSchedule == result # NoResult /\ ~result.raised

\* The learning rate at a step, and the step count and warmup_steps of the
\* call.
lr_at(step) == schedule_at(result.schedule, step)
N == args.num_train_steps
W == warmup_steps(config, args.num_train_steps)

\* The schedule is at learning_rate at step from, is at
\* learning_rate * min_lr_ratio at step to, and at no step from from up to
\* to - 1.
DecaysOver(from, to) ==
    /\ req(lr_at(from), config.learning_rate)
    /\ req(lr_at(to), min_lr(config))
    /\ \A s \in from..(to - 1) : ~req(lr_at(s), min_lr(config))

\* C22: for the cosine and the linear schedule, the learning rate is
\* learning_rate at step warmup_steps and first reaches
\* learning_rate * min_lr_ratio at step num_train_steps.
C22_DecayEndsAtNumTrainSteps ==
    (HasSchedule /\ config.lr_schedule \in {"cosine", "linear"}) =>
        DecaysOver(W, N)

\* C23: warmup_steps is round(warmup_ratio * num_train_steps), and when it
\* is positive the learning rate is 0 at step 0 and rises linearly to
\* learning_rate at step warmup_steps.
C23_RoundedWarmup ==
    HasSchedule =>
        LET rounded == warmup_steps_rounded(config, N)
        IN  /\ result.schedule.kind = "join" <=> rounded > 0
            /\ rounded > 0 =>
                   /\ result.schedule.boundary = rounded
                   /\ req(lr_at(0), Zero)
                   /\ \A s \in 0..rounded :
                          req(lr_at(s), rmul(config.learning_rate, Rat(s, rounded)))

\* The names of the components of the built chain.
Names == { result.components[i] : i \in DOMAIN result.components }
Index(name) == CHOOSE i \in DOMAIN result.components : result.components[i] = name
Truthy(x) == x # None /\ ~req(x, Zero)

\* C29: the chain build returns has Adam scaling and the scaling by
\* -learning_rate, the latter last; global-norm clipping exactly when
\* max_grad_norm is set to a non-zero value, and then first; decayed weights
\* exactly when weight_decay > 0, and then between Adam and the final
\* scaling; no other component and none twice.
C29_ChainOrder ==
    (HasSchedule /\ "components" \in DOMAIN result) =>
        /\ Names \subseteq {"clip_by_global_norm", "scale_by_adam",
                            "add_decayed_weights", "scale(-learning_rate)"}
        /\ Cardinality(Names) = Len(result.components)
        /\ {"scale_by_adam", "scale(-learning_rate)"} \subseteq Names
        /\ result.components[Len(result.components)] = "scale(-learning_rate)"
        /\ "clip_by_global_norm" \in Names <=> Truthy(config.max_grad_norm)
        /\ "clip_by_global_norm" \in Names => result.components[1] = "clip_by_global_norm"
        /\ "add_decayed_weights" \in Names <=> rlt(Zero, config.weight_decay)
        /\ "add_decayed_weights" \in Names =>
               Index("scale_by_adam") < Index("add_decayed_weights")
        /\ "clip_by_global_norm" \in Names =>
               Index("clip_by_global_norm") < Index("scale_by_adam")

C29_Witness ==
    /\ HasSchedule
    /\ "components" \in DOMAIN result
    /\ result.components = << "clip_by_global_norm", "scale_by_adam",
                              "add_decayed_weights", "scale(-learning_rate)" >>

\* C30: when warmup_steps is 0 there is no warmup segment: the learning
\* rate at step 0 is learning_rate, and a decaying schedule first reaches
\* learning_rate * min_lr_ratio at step num_train_steps.
C30_NoWarmupWhenZeroSteps ==
    (HasSchedule /\ W = 0) =>
        /\ result.schedule.kind # "join"
        /\ req(lr_at(0), config.learning_rate)
        /\ ~req(lr_at(0), Zero)
        /\ config.lr_schedule \in {"cosine", "linear"} => DecaysOver(0, N)

C30_Witness ==
    /\ HasSchedule
    /\ W = 0
    /\ ~req(config.warmup_ratio, Zero)
    /\ config.lr_schedule = "linear"
    /\ N = MaxSchedSteps
    /\ DecaysOver(0, N)

\* The training_key of the state n steps after a fresh start with the seed's
\* key.
RECURSIVE KeyAfter(_)
KeyAfter(n) == IF n = 0 THEN SeedKey ELSE split(KeyAfter(n - 1))[2]

\* C31: initial_state returns the checkpoint's opt_state and training_key,
\* not the key it was passed, when it loads a checkpoint, and the key it
\* was passed when it loads none; so the training_key of every state of a
\* run, resumed or not, is the one the sequence started at the seed has at
\* that step.
C31_ResumeUsesCheckpointKey ==
    /\ Returned =>
           IF Loaded
           THEN /\ state.opt_state = disk.opt_state
                /\ state.training_key = disk.training_key
                /\ state.training_key # SeedKey
           ELSE state.training_key = SeedKey
    /\ state # NoState => state.training_key = KeyAfter(state.step)

C31_Witness ==
    /\ Returned
    /\ Loaded
    /\ disk.step = 1
    /\ state.step = 2
    /\ state.training_key = disk.training_key
    /\ state.training_key # SeedKey

\* The shape of leaf l of the model initial_state starts from: a trainable
\* leaf is at param precision.
TrainableShape(l) == Leaf(cast_leaf(config.mp.param, Supplied(l)).dtype, 0)

\* C32: the template initial_state hands to maybe_load_checkpoint, and so
\* to the checkpoint loader, has the shape of each trainable leaf (selected
\* by the spec and floating-point) and the placeholder at every other leaf,
\* and comes with the shape of the optimizer state, which has a moment for
\* the trainable leaves alone, and the training key passed in; the loader
\* returns no non-trainable leaf.
C32_TemplateIsTrainableOnly ==
    template # NoTemplate =>
        /\ \A l \in Leaves :
               IF IsTrainable(l)
               THEN template.model[l] = TrainableShape(l)
               ELSE /\ template.model[l] = NoLeaf
                    /\ template.opt_state.mu[l] = NoLeaf
                    /\ checkpointer_load(disk, template.model).exists =>
                           checkpointer_load(disk, template.model).model[l] = NoLeaf
        /\ template.opt_state.count = 0
        /\ \A l \in Leaves :
               IsTrainable(l) => template.opt_state.mu[l] = TrainableShape(l)
        /\ template.training_key = SeedKey

C32_Witness ==
    /\ template # NoTemplate
    /\ "load_checkpoint" \in called
    /\ disk.exists
    /\ config.is_trainable.kind = "pred"
    /\ config.mp.param = "bf16"
    /\ template.model["w"] = Leaf("bf16", 0)
    /\ template.model["b"] = NoLeaf
    /\ template.model["ids"] = NoLeaf

\* C33: train never fails for want of a StepInfo: from every initial state
\* with step <= num_train_steps it returns one, whose state.step is
\* num_train_steps, and with run_hooks every hook has then had exactly one
\* forced call.
C33_TrainAlwaysReturns ==
    /\ err # "UnboundLocalError"
    /\ pc = "returned" =>
           /\ train_info # NoInfo
           /\ train_info.state.step = config.num_train_steps
           /\ run_hooks =>
                  \A i \in DOMAIN hooks : Cardinality(CallsOf(i, TRUE)) = 1

\* C34: with per_device_parallelism left at -1, _validate_and_set_defaults
\* ends in one of two ways: it raises ValueError, or it returns with
\* per_device_parallelism >= 1, train_batch_size a multiple of
\* per_device_parallelism * data_axis_size, and per_device_eval_parallelism
\* equal to per_device_parallelism if it was -1.
C34_ValueErrorOrValidDefaults ==
    (result # NoResult /\ result.before.per_device_parallelism = -1) =>
        IF result.raised
        THEN result.err = "ValueError"
        ELSE /\ config.per_device_parallelism >= 1
             /\ ~NotDivisible(config.train_batch_size,
                              config.per_device_parallelism
                                * data_axis_size(config, args.device_count))
             /\ result.before.per_device_eval_parallelism = -1 =>
                    config.per_device_eval_parallelism = config.per_device_parallelism

====
